---- MODULE Spec2Model ----
(***************************************************************************)
(* A model of the Planner genetic timetabling program:                     *)
(*   - the genetic operators of src/src/algorithm/mod.rs                   *)
(*     (create_first_population, rand_parents, crossover, mutate,          *)
(*     calculate_fitness) over the value types of algorithm/datatypes.rs;  *)
(*   - the collective distribution helpers of src/src/mpi_utils.rs         *)
(*     (serialize_vec, mpi_synchronize_ref, mpi_execute_and_synchronize_at, *)
(*     mpi_split_data_across_nodes, mpi_gather_and_synchronize) over       *)
(*     bincode's fixed-width encoding.                                     *)
(* Random draws are the existentially chosen inputs of the actions.        *)
(***************************************************************************)
EXTENDS Integers, Sequences, FiniteSets, TLC

VARIABLES
    config,      \* AlgorithmConfig: population_size, number_of_periods, mutation_probability
    tuples,      \* the Tuple catalog, a sequence of Tuple records
    population,  \* the current Population, a sequence of Individuals
    child,       \* the Individual being built by crossover / mutate / calculate_fitness
    before,      \* the Individual as it was when the last operator was entered
    sel,         \* <<idx1, idx2, samples drawn>> of the last rand_parents call
    fitness,     \* the last value returned by calculate_fitness
    pc,          \* position of the generational loop / outcome of the last operator
    generation,  \* generations completed
    collection,  \* the collection every rank passes to mpi_split_data_across_nodes
    owner,       \* data_owner_rank, the same on every rank
    ranks        \* per rank: position, locals and results of the collective helpers

gaVars == <<config, tuples, population, child, before, sel, fitness, pc, generation>>

mpiVars == <<collection, owner, ranks>>

vars == <<gaVars, mpiVars>>

-----------------------------------------------------------------------------
(* Bounds of the model *)

\* number_of_periods ranges over 1..MaxPeriods
MaxPeriods == 2
\* the weighted index is sampled at most MaxDraws times in one rand_parents call
MaxDraws == 3
\* the communicator has 1..MaxRanks processes
MaxRanks == 2
\* the scattered collection has at most MaxLen elements
MaxLen == 4

\* max_generations values explored
GenerationChoices == {2}

\* population_size values explored
PopSizes == {1, 2}

\* mutation_probability in percent: never, sometimes, always
Probabilities == {0, 50, 100}

-----------------------------------------------------------------------------
(* Helpers over sequences *)

Min(a, b) == IF a < b THEN a ELSE b

Range(s) == {s[i] : i \in 1..Len(s)}

Contains(s, x) == \E i \in 1..Len(s) : s[i] = x

RECURSIVE Flatten(_)
Flatten(ss) == IF ss = <<>> THEN <<>> ELSE Head(ss) \o Flatten(Tail(ss))

\* Vec::remove(index), index 0-based
RemoveAt(s, i) == SubSeq(s, 1, i) \o SubSeq(s, i + 2, Len(s))

\* Vec::retain(|g| g != x)
Without(s, x) == SelectSeq(s, LAMBDA g : g # x)

\* number of positions of s holding x
Count(s, x) == Cardinality({i \in 1..Len(s) : s[i] = x})

-----------------------------------------------------------------------------
(* Domain model: algorithm/datatypes.rs *)

UNINITIALIZED == 0 - 1000

\* Chromosome::new
NewChromosome(id) == [id |-> id, genes |-> <<>>]

\* (a default whose fitness is 0)
ZeroIndividual == [adaptation |-> 0, chromosomes |-> <<>>]

\* Individual::default
DefaultIndividual == [adaptation |-> UNINITIALIZED, chromosomes |-> <<>>]

\* Individual::new: capacity only, no chromosomes yet
NewIndividual(num_chromosomes) == [DefaultIndividual EXCEPT !.chromosomes = <<>>]

\* Individual::with_chromosomes
WithChromosomes(chromosomes) == [DefaultIndividual EXCEPT !.chromosomes = chromosomes]

\* all genes of an individual, chromosome by chromosome
AllGenes(ind) == Flatten([c \in 1..Len(ind.chromosomes) |-> ind.chromosomes[c].genes])

TupleIds(ts) == {ts[j].id : j \in 1..Len(ts)}

-----------------------------------------------------------------------------
(* create_first_population: algorithm/mod.rs 25-58 *)

\* (a period loop that numbers the chromosomes from 1)
CreatePeriodsFromOne(individual, number_of_periods) ==
    [individual EXCEPT !.chromosomes =
        individual.chromosomes \o [p \in 1..number_of_periods |-> NewChromosome(p)]]

\* the period loop: chromosomes 0..number_of_periods-1 pushed in order
CreatePeriods(individual, number_of_periods) ==
    [individual EXCEPT !.chromosomes =
        individual.chromosomes \o [p \in 1..number_of_periods |-> NewChromosome(p - 1)]]

\* (a tuple loop that skips the last tuple of the catalog)
RECURSIVE AssignTuplesButLast(_, _, _, _)
AssignTuplesButLast(individual, ts, draw, j) ==
    IF j >= Len(ts) THEN individual
    ELSE AssignTuplesButLast(
            [individual EXCEPT !.chromosomes[draw[j] + 1].genes = Append(@, ts[j].id)],
            ts, draw, j + 1)

\* the tuple loop from catalog position j on: tuple j goes to period draw[j]
RECURSIVE AssignTuples(_, _, _, _)
AssignTuples(individual, ts, draw, j) ==
    IF j > Len(ts) THEN individual
    ELSE AssignTuples(
            [individual EXCEPT !.chromosomes[draw[j] + 1].genes = Append(@, ts[j].id)],
            ts, draw, j + 1)

\* one iteration of the population loop
FirstIndividual(cfg, ts, draw) ==
    AssignTuples(CreatePeriods(NewIndividual(cfg.number_of_periods), cfg.number_of_periods),
                 ts, draw, 1)

\* the outcomes of rng.gen_range(0..number_of_periods) for every individual and tuple
FirstDraws(cfg, ts) ==
    [1..cfg.population_size -> [1..Len(ts) -> 0..(cfg.number_of_periods - 1)]]

create_first_population(cfg, ts, draws) ==
    [i \in 1..cfg.population_size |-> FirstIndividual(cfg, ts, draws[i])]

-----------------------------------------------------------------------------
(* rand_parents: algorithm/mod.rs 74-109 *)

\* sorted_by(b.adaptation cmp a.adaptation): the stable descending sort, as the
\* sequence of population positions in sorted order
RECURSIVE InsertDesc(_, _, _)
InsertDesc(sorted, parents, i) ==
    IF sorted = <<>> THEN <<i>>
    ELSE IF parents[Head(sorted)].adaptation >= parents[i].adaptation
         THEN <<Head(sorted)>> \o InsertDesc(Tail(sorted), parents, i)
         ELSE <<i>> \o sorted

RECURSIVE SortedOrder(_, _)
SortedOrder(parents, n) ==
    IF n = 0 THEN <<>> ELSE InsertDesc(SortedOrder(parents, n - 1), parents, n)

sorted_parents(parents) ==
    [k \in 1..Len(parents) |-> parents[SortedOrder(parents, Len(parents))[k]]]

\* every weight exp(-0.3 x + 2) is positive, so dist.sample can return any index
SampleSpace(parents) == 0..(Len(parents) - 1)

\* the loop of lines 93-98 over the samples drawn after idx1: the first one that
\* differs from idx1
\* (a loop that takes the first sample without the comparison of line 95)
SecondIndexUnchecked(idx1, samples) == Head(samples)

RECURSIVE SecondIndex(_, _)
SecondIndex(idx1, samples) ==
    IF Head(samples) # idx1 THEN Head(samples) ELSE SecondIndex(idx1, Tail(samples))

\* the sample sequences one call can consume: idx1, then samples up to and
\* including the first that differs from idx1
ParentDraws(parents) ==
    {d \in UNION {[1..n -> SampleSpace(parents)] : n \in 2..MaxDraws} :
        /\ d[Len(d)] # d[1]
        /\ \A k \in 2..(Len(d) - 1) : d[k] = d[1]}

\* <<idx1, idx2, number of samples drawn>>, the indexes being positions in
\* sorted_parents (0-based)
rand_parents(parents, d) == <<d[1], SecondIndex(d[1], Tail(d)), Len(d)>>

-----------------------------------------------------------------------------
(* crossover: algorithm/mod.rs 121-192 *)

\* zip(mother.chromosomes, father.chromosomes): as many pairs as the shorter has
ZipLen(mother, father) == Min(Len(mother.chromosomes), Len(father.chromosomes))

\* assert_eq!(mother_chromosome.id, father_chromosome.id) holds for every pair
SameIds(mother, father) ==
    \A c \in 1..ZipLen(mother, father) :
        mother.chromosomes[c].id = father.chromosomes[c].id

\* lines 139-142: mother_genes is bound to the father's chromosome and
\* father_genes to the mother's
MatingUpperBound(mother, father, c) ==
    Min(Len(father.chromosomes[c].genes), Len(mother.chromosomes[c].genes))

\* the outcomes of rng.gen_range(0..=mating_point_upper_bound), one per chromosome
MatingPoints(mother, father) ==
    {mp \in [1..ZipLen(mother, father) -> 0..Len(AllGenes(mother)) + Len(AllGenes(father))] :
        \A c \in 1..ZipLen(mother, father) : mp[c] <= MatingUpperBound(mother, father, c)}

\* lines 133-158: the child chromosome of one pair
MateChromosome(mother_chromosome, father_chromosome, mating_point) ==
    LET mother_genes == father_chromosome.genes
        father_genes == mother_chromosome.genes
        mother_left  == SubSeq(mother_genes, 1, mating_point)
        father_right == SubSeq(father_genes, mating_point + 1, Len(father_genes))
    IN  [id |-> mother_chromosome.id, genes |-> mother_left \o father_right]

\* lines 128-160
Mate(mother, father, mp) ==
    WithChromosomes([c \in 1..ZipLen(mother, father) |->
        MateChromosome(mother.chromosomes[c], father.chromosomes[c], mp[c])])

\* lines 165-175: the genes of the mother found in no chromosome of the child
LostGenes(mother, ch) ==
    SelectSeq(AllGenes(mother),
              LAMBDA g : ~ \E c \in 1..Len(ch.chromosomes) : Contains(ch.chromosomes[c].genes, g))

\* the outcomes of rng.gen_range(0..number_of_periods), one per lost gene
LostPlacements(cfg, lost) == [1..Len(lost) -> 0..(cfg.number_of_periods - 1)]

\* lines 179-182 from lost gene k on
RECURSIVE RepairLost(_, _, _, _)
RepairLost(ch, lost, place, k) ==
    IF k > Len(lost) THEN ch
    ELSE RepairLost([ch EXCEPT !.chromosomes[place[k] + 1].genes = Append(@, lost[k])],
                    lost, place, k + 1)

\* genes.retain(|x| seen.insert(x)) on one gene sequence: <<kept genes, seen>>
RECURSIVE RetainUnseen(_, _)
RetainUnseen(genes, seen) ==
    IF genes = <<>> THEN <<(<<>>), seen>>
    ELSE IF Head(genes) \in seen
         THEN RetainUnseen(Tail(genes), seen)
         ELSE LET rest == RetainUnseen(Tail(genes), seen \cup {Head(genes)})
              IN  <<(<<Head(genes)>>) \o rest[1], rest[2]>>

\* (a repair that starts every chromosome with an empty set)
RemoveDuplicatesPerChromosome(chromosomes, seen, c) ==
    [k \in 1..Len(chromosomes) |->
        [chromosomes[k] EXCEPT !.genes = RetainUnseen(@, {})[1]]]

\* lines 185-189 from chromosome c on, with the HashSet seen shared by all
RECURSIVE RemoveDuplicates(_, _, _)
RemoveDuplicates(chromosomes, seen, c) ==
    IF c > Len(chromosomes) THEN chromosomes
    ELSE LET kept == RetainUnseen(chromosomes[c].genes, seen)
         IN  RemoveDuplicates([chromosomes EXCEPT ![c].genes = kept[1]], kept[2], c + 1)

\* (a repair that leaves the duplicates in)
KeepDuplicates(ch) == ch

RepairDuplicates(ch) ==
    [ch EXCEPT !.chromosomes = RemoveDuplicates(ch.chromosomes, {}, 1)]

\* (a repair that drops the lost genes instead of placing them)
DropLost(cfg, mother, mated, place) == mated

RepairLostGenes(cfg, mother, mated, place) ==
    RepairLost(mated, LostGenes(mother, mated), place, 1)

\* the child for given parents and draws
crossover(cfg, mother, father, mp, place) ==
    RepairDuplicates(RepairLostGenes(cfg, mother, Mate(mother, father, mp), place))

-----------------------------------------------------------------------------
(* mutate: algorithm/mod.rs 202-236 *)

\* (a draw that comes out true whatever the probability)
GenBoolAlways(probability) == {TRUE}

\* the outcomes of rng.gen_bool(mutation_probability), the probability in percent
GenBool(probability) ==
    IF probability = 0 THEN {FALSE}
    ELSE IF probability = 100 THEN {TRUE}
    ELSE BOOLEAN

\* lines 218-223: genes.remove(gene_index), then retain(|g| g != gene)
TakeGene(genes, gene_index) == Without(RemoveAt(genes, gene_index), genes[gene_index + 1])

\* lines 226-229: the chromosomes that pass filter(|target| target.id != period_id)
MutationTargets(individual, period_id) ==
    {c \in 1..Len(individual.chromosomes) : individual.chromosomes[c].id # period_id}

\* (a move that forgets to push the removed gene)
MoveGeneLosing(individual, period_id, gene_index, target) ==
    [individual EXCEPT !.chromosomes[period_id + 1].genes = TakeGene(@, gene_index)]

\* lines 216-233 for one drawn gene_index and one chosen target
MoveGene(individual, period_id, gene_index, target) ==
    LET gene == individual.chromosomes[period_id + 1].genes[gene_index + 1]
        taken == [individual EXCEPT !.chromosomes[period_id + 1].genes = TakeGene(@, gene_index)]
    IN  [taken EXCEPT !.chromosomes[target].genes = Append(@, gene)]

\* one iteration of the loop of line 208: the set of outcomes, each the individual
\* after the iteration or a panic (choose(..) returned None and unwrap failed)
MutatePeriod(cfg, individual, period_id) ==
    LET gene_count == Len(individual.chromosomes[period_id + 1].genes)
        same == [panicked |-> FALSE, individual |-> individual]
    IN  UNION {
            IF ~hit THEN {same}
            ELSE IF gene_count = 0 THEN {same}
            ELSE IF MutationTargets(individual, period_id) = {}
                 THEN {[panicked |-> TRUE, individual |-> individual]}
                 ELSE {[panicked |-> FALSE,
                        individual |-> MoveGene(individual, period_id, gene_index, target)] :
                           gene_index \in 0..(gene_count - 1),
                           target \in MutationTargets(individual, period_id)}
            : hit \in GenBool(cfg.mutation_probability)}

\* the loop from period_id on: every outcome of the remaining iterations
RECURSIVE MutateFrom(_, _, _)
MutateFrom(cfg, individual, period_id) ==
    IF period_id >= cfg.number_of_periods
    THEN {[panicked |-> FALSE, individual |-> individual]}
    ELSE UNION {
            IF step.panicked THEN {step}
            ELSE MutateFrom(cfg, step.individual, period_id + 1)
            : step \in MutatePeriod(cfg, individual, period_id)}

mutate(cfg, individual) == MutateFrom(cfg, individual, 0)

-----------------------------------------------------------------------------
(* calculate_fitness: algorithm/mod.rs 243-316 *)

\* tuples.iter().find(|t| t.id == gene_id): the first catalog position with the id
FindTuple(ts, gene_id) ==
    LET hits == {j \in 1..Len(ts) : ts[j].id = gene_id}
    IN  IF hits = {} THEN 0 ELSE CHOOSE j \in hits : \A k \in hits : j <= k

\* every gene of every chromosome resolves to a tuple (no expect() panic)
AllGenesFound(individual, ts) ==
    \A c \in 1..Len(individual.chromosomes) :
        \A g \in Range(individual.chromosomes[c].genes) : FindTuple(ts, g) # 0

\* (a filter without the t.id != tuple.id of line 267)
OtherClassesAndSelf(ts, genes, tuple) ==
    {j \in 1..Len(ts) : Contains(genes, ts[j].id)}

\* lines 264-267: catalog positions of the other classes of the period
OtherClasses(ts, genes, tuple) ==
    {j \in 1..Len(ts) : Contains(genes, ts[j].id) /\ ts[j].id # tuple.id}

\* (a scan that counts each conflicting pair once, from the lower gene only)
GenePenaltyOnce(ts, genes, tuple) ==
    LET other_classes == {j \in OtherClasses(ts, genes, tuple) : ts[j].id > tuple.id}
    IN  Cardinality({j \in other_classes : ts[j].room = tuple.room}) * 10
      + Cardinality({j \in other_classes : ts[j].teacher = tuple.teacher}) * 10

\* lines 270-300: what one gene subtracts from individual_fitness
GenePenalty(ts, genes, tuple) ==
    LET other_classes == OtherClasses(ts, genes, tuple)
        same_teacher_different_classes_count ==
            Cardinality({j \in other_classes :
                ts[j].room = tuple.room /\ ts[j].teacher = tuple.teacher})
        same_room_different_teacher_count ==
            Cardinality({j \in other_classes :
                ts[j].room = tuple.room /\ ts[j].teacher # tuple.teacher})
        same_teacher_same_subject_count ==
            Cardinality({j \in other_classes :
                ts[j].teacher = tuple.teacher /\ ts[j].label = tuple.label})
        same_teacher_different_subject_count ==
            Cardinality({j \in other_classes :
                ts[j].teacher = tuple.teacher /\ ts[j].label # tuple.label})
    IN  same_teacher_different_classes_count * 10
      + same_room_different_teacher_count * 20
      + same_teacher_same_subject_count * 10
      + same_teacher_different_subject_count * 20

\* the loop of line 251 over the genes of one period, from position k on
RECURSIVE PeriodPenalty(_, _, _)
PeriodPenalty(ts, genes, k) ==
    IF k > Len(genes) THEN 0
    ELSE GenePenalty(ts, genes, ts[FindTuple(ts, genes[k])]) + PeriodPenalty(ts, genes, k + 1)

\* the loop of line 246 over the periods, from chromosome c on
RECURSIVE FitnessFrom(_, _, _)
FitnessFrom(individual, ts, c) ==
    IF c > Len(individual.chromosomes) THEN 0
    ELSE FitnessFrom(individual, ts, c + 1) - PeriodPenalty(ts, individual.chromosomes[c].genes, 1)

\* defined when AllGenesFound(individual, ts); the code panics otherwise
calculate_fitness(individual, ts) == FitnessFrom(individual, ts, 1)

-----------------------------------------------------------------------------
(* MPITransferable: mpi_utils.rs 14-26, bincode's fixed-width little-endian     *)
(* encoding of the derive(Serialize, Deserialize) types of datatypes.rs        *)

\* n bytes of v >= 0, least significant first
RECURSIVE LittleEndian(_, _)
LittleEndian(v, n) ==
    IF n = 0 THEN <<>> ELSE <<v % 256>> \o LittleEndian(v \div 256, n - 1)

RECURSIVE FromLittleEndian(_)
FromLittleEndian(bytes) ==
    IF bytes = <<>> THEN 0 ELSE Head(bytes) + 256 * FromLittleEndian(Tail(bytes))

OnesComplement(bytes) == [i \in 1..Len(bytes) |-> 255 - bytes[i]]

\* i32: 4 bytes, two's complement
I32Bytes(v) ==
    IF v >= 0 THEN LittleEndian(v, 4) ELSE OnesComplement(LittleEndian((0 - v) - 1, 4))

I32Value(bytes) ==
    IF bytes[4] >= 128
    THEN (0 - FromLittleEndian(OnesComplement(bytes))) - 1
    ELSE FromLittleEndian(bytes)

\* usize and Vec lengths: u64, 8 bytes
U64Bytes(v) == LittleEndian(v, 8)

\* a length no buffer of the model can hold stands for every value >= 2^24
HugeLength == 256 * 256 * 256

U64Value(bytes) ==
    IF \E i \in 4..8 : bytes[i] # 0
    THEN HugeLength
    ELSE FromLittleEndian(SubSeq(bytes, 1, 3))

\* Chromosome { id: i32, genes: Vec<i32> }
ChromosomeBytes(chromosome) ==
    I32Bytes(chromosome.id) \o U64Bytes(Len(chromosome.genes))
        \o Flatten([g \in 1..Len(chromosome.genes) |-> I32Bytes(chromosome.genes[g])])

\* Individual { adaptation: i32, chromosomes: Vec<Chromosome> }: into_bytes
IndividualBytes(individual) ==
    I32Bytes(individual.adaptation) \o U64Bytes(Len(individual.chromosomes))
        \o Flatten([c \in 1..Len(individual.chromosomes) |->
                        ChromosomeBytes(individual.chromosomes[c])])

\* Vec<Individual>: into_bytes
PopulationBytes(individuals) ==
    U64Bytes(Len(individuals))
        \o Flatten([i \in 1..Len(individuals) |-> IndividualBytes(individuals[i])])

\* a read at offset `at` (0-based): ok, the value, and the offset after it;
\* a read past the end of the buffer is bincode's error, which unwrap() turns
\* into a panic
Failed(at) == [ok |-> FALSE, value |-> <<>>, next |-> at]

ReadI32(bytes, at) ==
    IF at + 4 > Len(bytes) THEN Failed(at)
    ELSE [ok |-> TRUE, value |-> I32Value(SubSeq(bytes, at + 1, at + 4)), next |-> at + 4]

ReadU64(bytes, at) ==
    IF at + 8 > Len(bytes) THEN Failed(at)
    ELSE [ok |-> TRUE, value |-> U64Value(SubSeq(bytes, at + 1, at + 8)), next |-> at + 8]

\* the u64 length that starts a Vec; bincode refuses a length the buffer
\* cannot hold
ReadLength(bytes, at) ==
    LET length == ReadU64(bytes, at)
    IN  IF ~length.ok \/ length.value > Len(bytes) THEN Failed(at) ELSE length

\* an element followed by the elements read after it
ReadNext(first, rest, at) ==
    IF ~rest.ok THEN Failed(at)
    ELSE [ok |-> TRUE, value |-> <<first.value>> \o rest.value, next |-> rest.next]

\* n genes read one after the other
RECURSIVE ReadGenes(_, _, _)
ReadGenes(bytes, at, n) ==
    IF n = 0 THEN [ok |-> TRUE, value |-> <<>>, next |-> at]
    ELSE LET first == ReadI32(bytes, at)
         IN  IF ~first.ok THEN Failed(at)
             ELSE ReadNext(first, ReadGenes(bytes, first.next, n - 1), at)

ReadChromosome(bytes, at) ==
    LET id == ReadI32(bytes, at)
    IN  IF ~id.ok THEN Failed(at)
        ELSE LET length == ReadLength(bytes, id.next)
             IN  IF ~length.ok THEN Failed(at)
                 ELSE LET genes == ReadGenes(bytes, length.next, length.value)
                      IN  IF ~genes.ok THEN Failed(at)
                          ELSE [ok |-> TRUE,
                                value |-> [id |-> id.value, genes |-> genes.value],
                                next |-> genes.next]

\* n chromosomes read one after the other
RECURSIVE ReadChromosomes(_, _, _)
ReadChromosomes(bytes, at, n) ==
    IF n = 0 THEN [ok |-> TRUE, value |-> <<>>, next |-> at]
    ELSE LET first == ReadChromosome(bytes, at)
         IN  IF ~first.ok THEN Failed(at)
             ELSE ReadNext(first, ReadChromosomes(bytes, first.next, n - 1), at)

ReadIndividual(bytes, at) ==
    LET adaptation == ReadI32(bytes, at)
    IN  IF ~adaptation.ok THEN Failed(at)
        ELSE LET length == ReadLength(bytes, adaptation.next)
             IN  IF ~length.ok THEN Failed(at)
                 ELSE LET chromosomes ==
                              ReadChromosomes(bytes, length.next, length.value)
                      IN  IF ~chromosomes.ok THEN Failed(at)
                          ELSE [ok |-> TRUE,
                                value |-> [adaptation |-> adaptation.value,
                                           chromosomes |-> chromosomes.value],
                                next |-> chromosomes.next]

\* n Individuals read one after the other
RECURSIVE ReadIndividuals(_, _, _)
ReadIndividuals(bytes, at, n) ==
    IF n = 0 THEN [ok |-> TRUE, value |-> <<>>, next |-> at]
    ELSE LET first == ReadIndividual(bytes, at)
         IN  IF ~first.ok THEN Failed(at)
             ELSE ReadNext(first, ReadIndividuals(bytes, first.next, n - 1), at)

\* from_bytes: bincode::deserialize reads from the start and ignores what follows
IndividualFromBytes(bytes) == ReadIndividual(bytes, 0)

PopulationFromBytes(bytes) ==
    LET length == ReadLength(bytes, 0)
    IN  IF ~length.ok THEN Failed(0)
        ELSE ReadIndividuals(bytes, length.next, length.value)

UsizeFromBytes(bytes) == ReadU64(bytes, 0)

-----------------------------------------------------------------------------
(* serialize_vec: mpi_utils.rs 79-93 *)

\* line 80: every element serialized
SerializedElements(data) == [i \in 1..Len(data) |-> IndividualBytes(data[i])]

\* lines 83-87: assert_eq!(prev_len, current_len) holds for every neighbour pair
UniformSize(data) ==
    \A i \in 2..Len(data) :
        Len(SerializedElements(data)[i - 1]) = Len(SerializedElements(data)[i])

\* lines 89-92, for a non-empty data that passed the assertion
serialize_vec(data) ==
    [data_size |-> Len(SerializedElements(data)[1]),
     bytes |-> Flatten(SerializedElements(data))]

-----------------------------------------------------------------------------
(* The generational loop over the genetic operators *)

\* the Tuple catalog of the runs explored: ids are unique (datatypes.rs, Tuple)
Catalog ==
    << [id |-> 1, label |-> "Math",    room |-> "101", teacher |-> "A"],
       [id |-> 2, label |-> "Math",    room |-> "101", teacher |-> "B"],
       [id |-> 3, label |-> "Physics", room |-> "102", teacher |-> "A"] >>

\* the catalogs explored: the first n rows of Catalog
Catalogs == {SubSeq(Catalog, 1, n) : n \in 0..Len(Catalog)}

Configs ==
    [max_generations : GenerationChoices,
     population_size : PopSizes,
     number_of_periods : 1..MaxPeriods,
     mutation_probability : Probabilities]

\* no collective call in progress
MPIIdle ==
    /\ collection = <<>>
    /\ owner = 0
    /\ ranks = <<>>

\* a probability strictly between 0 and 1 lets gen_bool return either value, so
\* the loop under it reaches every Individual the loop reaches under 0 or 1
GAInit ==
    /\ MPIIdle
    /\ config \in {cfg \in Configs : cfg.mutation_probability \notin {0, 100}}
    /\ tuples \in Catalogs
    /\ population = <<>>
    /\ child = DefaultIndividual
    /\ before = DefaultIndividual
    /\ sel = <<0, 0, 0>>
    /\ fitness = 0
    /\ pc = "start"
    /\ generation = 0

\* generation 0: the population is created
CreateFirstPopulation ==
    /\ pc = "start"
    /\ \E draws \in FirstDraws(config, tuples) :
          population' = create_first_population(config, tuples, draws)
    /\ pc' = "ready"
    /\ UNCHANGED <<config, tuples, child, before, sel, fitness, generation>>
    /\ UNCHANGED mpiVars

\* crossover(config, population): the assertions of lines 75 and 134 abort the run
Crossover ==
    /\ pc = "ready"
    /\ generation < config.max_generations
    /\ IF Len(population) <= 1
       THEN /\ pc' = "panicked"
            /\ UNCHANGED <<child, sel>>
       ELSE \E d \in ParentDraws(population) :
              LET idx == rand_parents(population, d)
                  mother == sorted_parents(population)[idx[1] + 1]
                  father == sorted_parents(population)[idx[2] + 1]
              IN  /\ sel' = idx
                  /\ IF ~SameIds(mother, father)
                     THEN /\ pc' = "panicked"
                          /\ UNCHANGED child
                     ELSE \E mp \in MatingPoints(mother, father) :
                          \E place \in LostPlacements(config,
                                          LostGenes(mother, Mate(mother, father, mp))) :
                             /\ child' = crossover(config, mother, father, mp, place)
                             /\ pc' = "crossed"
    /\ UNCHANGED <<config, tuples, population, before, fitness, generation>>
    /\ UNCHANGED mpiVars

\* mutate(config, &mut child)
Mutate ==
    /\ pc = "crossed"
    /\ \E outcome \in mutate(config, child) :
          /\ child' = outcome.individual
          /\ pc' = IF outcome.panicked THEN "panicked" ELSE "mutated"
    /\ sel' = <<0, 0, 0>>
    /\ UNCHANGED <<config, tuples, population, before, fitness, generation>>
    /\ UNCHANGED mpiVars

\* child.adaptation = calculate_fitness(&child, &tuples), and the scored child
\* enters the next population
Evaluate ==
    /\ pc = "mutated"
    /\ IF AllGenesFound(child, tuples)
       THEN /\ fitness' = calculate_fitness(child, tuples)
            /\ \E i \in 1..Len(population) :
                  population' = [population EXCEPT
                                    ![i] = [child EXCEPT !.adaptation = calculate_fitness(child, tuples)]]
            /\ generation' = generation + 1
            /\ pc' = "ready"
       ELSE /\ pc' = "panicked"
            /\ UNCHANGED <<population, fitness, generation>>
    /\ UNCHANGED <<config, tuples, child, before, sel>>
    /\ UNCHANGED mpiVars

GANext == CreateFirstPopulation \/ Crossover \/ Mutate \/ Evaluate

Spec == GAInit /\ [][GANext]_vars

-----------------------------------------------------------------------------
(* Properties of the genetic operators *)

\* the ids of the catalog are pairwise distinct
DistinctIds(ts) == \A j, k \in 1..Len(ts) : ts[j].id = ts[k].id => j = k

\* completeness: every Tuple id exactly once over all chromosomes, nothing else
Complete(individual, ts) ==
    /\ \A id \in TupleIds(ts) : Count(AllGenes(individual), id) = 1
    /\ Range(AllGenes(individual)) \subseteq TupleIds(ts)

\* chromosome ids 0..number_of_periods-1 in order
Shaped(individual, cfg) ==
    /\ Len(individual.chromosomes) = cfg.number_of_periods
    /\ \A c \in 1..Len(individual.chromosomes) : individual.chromosomes[c].id = c - 1

Mother == sorted_parents(population)[sel[1] + 1]
Father == sorted_parents(population)[sel[2] + 1]

\* C1: over a population of more than one shaped, complete Individuals, whatever
\* the draws, the Individual returned by crossover holds every Tuple id exactly
\* once over all its chromosomes (none missing, none twice, none foreign).
C1_CrossoverComplete ==
    (/\ pc = "crossed"
     /\ Len(population) > 1
     /\ \A i \in 1..Len(population) :
           Shaped(population[i], config) /\ Complete(population[i], tuples))
    => Complete(child, tuples)

\* a child that is neither parent, mated from parents with different layouts
C1_Witness ==
    /\ pc = "crossed"
    /\ Len(tuples) = 3
    /\ \A i \in 1..Len(population) :
          Shaped(population[i], config) /\ Complete(population[i], tuples)
    /\ Complete(child, tuples)
    /\ child.chromosomes # Mother.chromosomes
    /\ child.chromosomes # Father.chromosomes

\* C7: for a population of more than one Individual, whatever the draws, the two
\* sorted positions returned by rand_parents differ.
C7_ParentsDistinct ==
    (pc = "crossed" /\ Len(population) > 1) => sel[1] # sel[2]

\* the second index was resampled, in a population whose sorted order is not
\* its stored order
C7_Witness ==
    /\ pc = "crossed"
    /\ sel[3] > 2
    /\ sel[1] # sel[2]
    /\ population[1].adaptation < population[2].adaptation

\* C9: create_first_population returns population_size Individuals, each with
\* number_of_periods chromosomes whose ids are 0, 1, .. in that order.
C9_FirstPopulationShape ==
    (pc = "ready" /\ generation = 0) =>
        /\ Len(population) = config.population_size
        /\ \A i \in 1..Len(population) : Shaped(population[i], config)

C9_Witness ==
    /\ pc = "ready"
    /\ generation = 0
    /\ config.number_of_periods >= 2
    /\ Len(population) = 2
    /\ \A i \in 1..2 : Shaped(population[i], config)

\* C10: for a catalog of pairwise-distinct ids, whatever the draws, each
\* Individual of the first population holds every Tuple id exactly once, the
\* total gene count being the catalog size.
C10_FirstPopulationComplete ==
    (pc = "ready" /\ generation = 0 /\ DistinctIds(tuples)) =>
        \A i \in 1..Len(population) :
            /\ Complete(population[i], tuples)
            /\ Len(AllGenes(population[i])) = Len(tuples)

\* a first population whose two Individuals place the three tuples differently
C10_Witness ==
    /\ pc = "ready"
    /\ generation = 0
    /\ Len(tuples) = 3
    /\ Len(population) = 2
    /\ population[1] # population[2]
    /\ \A i \in 1..2 : Complete(population[i], tuples)
    /\ \E c \in 1..Len(population[1].chromosomes) :
          Len(population[1].chromosomes[c].genes) = 2

\* the Individuals built so far by the operators
Built ==
    Range(population) \cup (IF pc \in {"crossed", "mutated"} THEN {child} ELSE {})

\* C15: Individual::default() and Individual::new(n) give adaptation -1000 and
\* no chromosome, Individual::with_chromosomes(c) gives adaptation -1000 and
\* exactly the chromosomes c; every Individual of the population
\* create_first_population returns, and the child crossover returns, whatever
\* the adaptation of its parents, has adaptation -1000.
C15_UninitializedSentinel ==
    /\ DefaultIndividual = [adaptation |-> 0 - 1000, chromosomes |-> <<>>]
    /\ \A n \in 0..MaxPeriods :
          NewIndividual(n) = [adaptation |-> 0 - 1000, chromosomes |-> <<>>]
    /\ WithChromosomes(<<[id |-> 1, genes |-> <<1, 2, 3>>]>>)
          = [adaptation |-> 0 - 1000,
             chromosomes |-> <<[id |-> 1, genes |-> <<1, 2, 3>>]>>]
    /\ \A x \in Built :
          WithChromosomes(x.chromosomes)
             = [adaptation |-> 0 - 1000, chromosomes |-> x.chromosomes]
    /\ (pc = "ready" /\ generation = 0)
          => \A i \in 1..Len(population) : population[i].adaptation = 0 - 1000
    /\ pc = "crossed" => child.adaptation = 0 - 1000

\* a child of a parent that has been scored
C15_Witness ==
    /\ pc = "crossed"
    /\ generation >= 1
    /\ Mother.adaptation # 0 - 1000
    /\ Mother.adaptation < 0
    /\ child.adaptation = 0 - 1000
    /\ Len(child.chromosomes) = 2

\* C3: every Individual reachable through create_first_population, crossover and
\* mutate has number_of_periods chromosomes and as many genes as the catalog has
\* tuples, hence serializes to 12 + 12 * number_of_periods + 4 * |catalog| bytes,
\* and the equal-length assertion of serialize_vec passes on such a population.
C3_UniformSerializedLength ==
    /\ \A x \in Built :
          /\ Len(x.chromosomes) = config.number_of_periods
          /\ Len(AllGenes(x)) = Len(tuples)
          /\ Len(IndividualBytes(x)) = 12 + 12 * config.number_of_periods + 4 * Len(tuples)
    /\ UniformSize(population)

\* a second-generation population of children with different layouts
C3_Witness ==
    /\ pc = "ready"
    /\ generation = 2
    /\ Len(tuples) = 3
    /\ Len(population) = 2
    /\ population[1].chromosomes # population[2].chromosomes
    /\ \A i \in 1..2 : population[i].adaptation # UNINITIALIZED
    /\ \A i \in 1..2 : Len(IndividualBytes(population[i])) = 48
    /\ UniformSize(population)

-----------------------------------------------------------------------------
(* mutate applied to bounded inputs *)

\* gene sequences of at most n genes over the given ids
GeneSequences(ids, n) == UNION {[1..len -> ids] : len \in 0..n}

\* the ways to cut a sequence of n genes into `periods` consecutive parts:
\* cut[c] genes lie in the chromosomes before chromosome c + 1
Cuts(n, periods) ==
    {cut \in [0..periods -> 0..n] :
        /\ cut[0] = 0
        /\ cut[periods] = n
        /\ \A c \in 1..periods : cut[c - 1] <= cut[c]}

\* the Individual with chromosome ids 0..periods-1 holding genes cut into parts
Layout(genes, cut, periods) ==
    WithChromosomes([c \in 1..periods |->
        [id |-> c - 1, genes |-> SubSeq(genes, cut[c - 1] + 1, cut[c])]])

\* every Individual of cfg's shape with at most as many genes as the catalog
\* has tuples, drawn from the catalog's ids: complete and incomplete ones
Layouts(cfg, ts) ==
    UNION {{Layout(genes, cut, cfg.number_of_periods) :
                cut \in Cuts(Len(genes), cfg.number_of_periods)} :
           genes \in GeneSequences(TupleIds(ts), Len(ts))}

MutateInit ==
    /\ MPIIdle
    /\ config \in Configs
    /\ tuples \in Catalogs
    /\ child \in Layouts(config, tuples)
    /\ before = DefaultIndividual
    /\ population = <<>>
    /\ sel = <<0, 0, 0>>
    /\ fitness = 0
    /\ pc = "input"
    /\ generation = 0

\* mutate(config, &mut child) on the input
MutateInput ==
    /\ pc = "input"
    /\ \E outcome \in mutate(config, child) :
          /\ child' = outcome.individual
          /\ pc' = IF outcome.panicked THEN "panicked" ELSE "mutated"
    /\ before' = child
    /\ UNCHANGED <<config, tuples, population, sel, fitness, generation>>
    /\ UNCHANGED mpiVars

SpecMutate == MutateInit /\ [][MutateInput]_vars

\* C6: for an Individual holding every Tuple id exactly once, with chromosome
\* ids 0..number_of_periods-1 and number_of_periods >= 2, whatever the
\* probability and the draws, the genes after mutate are the same multiset as
\* before it, so every Tuple id is still there exactly once.
C6_MutatePreservesGenes ==
    (/\ pc = "mutated"
     /\ config.number_of_periods >= 2
     /\ Shaped(before, config)
     /\ Complete(before, tuples))
    => /\ \A id \in Range(AllGenes(before)) \cup Range(AllGenes(child)) :
             Count(AllGenes(child), id) = Count(AllGenes(before), id)
       /\ Complete(child, tuples)

\* a mutation that moved genes out of two chromosomes of a complete Individual
C6_Witness ==
    /\ pc = "mutated"
    /\ config.number_of_periods >= 2
    /\ Len(tuples) = 3
    /\ Shaped(before, config)
    /\ Complete(before, tuples)
    /\ Complete(child, tuples)
    /\ Len(before.chromosomes[1].genes) = 2
    /\ Len(before.chromosomes[2].genes) = 1
    /\ child.chromosomes[1].genes # before.chromosomes[1].genes
    /\ ~Contains(child.chromosomes[2].genes, before.chromosomes[2].genes[1])

\* C14: with mutation_probability = 0, whatever the Individual (complete or
\* not, of one period or more), mutate returns without a panic and every
\* chromosome holds the gene sequence it held before.
C14_ZeroProbabilityNoOp ==
    (pc # "input" /\ config.mutation_probability = 0)
    => /\ pc = "mutated"
       /\ \A c \in 1..Len(before.chromosomes) :
             child.chromosomes[c].genes = before.chromosomes[c].genes
       /\ child = before

\* mutate has run at probability 0 on two non-empty chromosomes
C14_Witness ==
    /\ pc = "mutated"
    /\ config.mutation_probability = 0
    /\ config.number_of_periods = 2
    /\ Len(before.chromosomes[1].genes) = 2
    /\ Len(before.chromosomes[2].genes) = 1
    /\ child = before

\* one iteration of the loop on chromosome p either left the Individual as it
\* was or took the gene g out of chromosome p and appended it to exactly one
\* other chromosome q
MovedOne(old, new, p) ==
    \/ new = old
    \/ \E q \in 1..Len(old.chromosomes) :
       \E g \in Range(old.chromosomes[p + 1].genes) :
          /\ q # p + 1
          /\ new.chromosomes[p + 1].genes = Without(old.chromosomes[p + 1].genes, g)
          /\ new.chromosomes[q].genes = Append(old.chromosomes[q].genes, g)
          /\ \A c \in 1..Len(old.chromosomes) :
                (c # q /\ c # p + 1) => new.chromosomes[c] = old.chromosomes[c]

\* C17 as stated: for every config with number_of_periods >= 1, one period
\* included, mutate runs to its end, and an iteration of its loop on
\* chromosome p leaves an empty chromosome as it is and otherwise either
\* changes nothing or moves one gene of p into exactly one chromosome q # p.
C17_Original ==
    (pc # "input" /\ config.number_of_periods >= 1)
    => /\ pc = "mutated"
       /\ \A p \in 0..(config.number_of_periods - 1) :
          \A step \in MutatePeriod(config, before, p) :
             /\ ~step.panicked
             /\ MovedOne(before, step.individual, p)
             /\ before.chromosomes[p + 1].genes = <<>> => step.individual = before

\* with one period, mutate has taken the gene out of the only chromosome and
\* found no other chromosome to put it in: choose returns None and the unwrap
\* of line 230 panics
C17_Witness ==
    /\ pc = "panicked"
    /\ config.number_of_periods = 1
    /\ config.mutation_probability > 0
    /\ before.chromosomes[1].genes # <<>>
    /\ MutationTargets(before, 0) = {}

-----------------------------------------------------------------------------
(* crossover applied to bounded inputs *)

\* the Individuals of cfg's shape whose genes are distinct ids of the catalog:
\* the complete ones and the ones that miss some tuples
DistinctLayouts(cfg, ts) ==
    {x \in Layouts(cfg, ts) :
        \A g \in Range(AllGenes(x)) : Count(AllGenes(x), g) = 1}

\* the parents rand_parents returned: population[1] the mother, population[2]
\* the father
CrossoverInit ==
    /\ MPIIdle
    /\ config \in {cfg \in Configs :
                      cfg.population_size = 2 /\ cfg.mutation_probability = 0}
    /\ tuples \in Catalogs
    /\ population \in {<<mother, father>> :
                          mother \in DistinctLayouts(config, tuples),
                          father \in DistinctLayouts(config, tuples)}
    /\ child = DefaultIndividual
    /\ before = DefaultIndividual
    /\ sel = <<0, 1, 2>>
    /\ fitness = 0
    /\ pc = "parents"
    /\ generation = 0

\* lines 128-192 on the parents; `before` keeps the child as it is at line 184,
\* the lost genes placed and the duplicates still in
CrossoverInput ==
    /\ pc = "parents"
    /\ LET mother == population[1]
           father == population[2]
       IN  IF ~SameIds(mother, father)
           THEN /\ pc' = "panicked"
                /\ UNCHANGED <<child, before>>
           ELSE \E mp \in MatingPoints(mother, father) :
                \E place \in LostPlacements(config,
                                LostGenes(mother, Mate(mother, father, mp))) :
                   /\ before' = RepairLostGenes(config, mother,
                                                Mate(mother, father, mp), place)
                   /\ child' = crossover(config, mother, father, mp, place)
                   /\ pc' = "crossed"
    /\ UNCHANGED <<config, tuples, population, sel, fitness, generation>>
    /\ UNCHANGED mpiVars

SpecCrossover == CrossoverInit /\ [][CrossoverInput]_vars

\* C11 as stated: every gene that appears in the mother or in the father
\* appears in the child crossover returns.
C11_Original ==
    (pc = "crossed")
    => \A g \in Range(AllGenes(population[1])) \cup Range(AllGenes(population[2])) :
          Contains(AllGenes(child), g)

\* a child that misses a gene of the father: all_genes (lines 165-169) is
\* collected from the mother alone
C11_Witness ==
    /\ pc = "crossed"
    /\ \E g \in Range(AllGenes(population[2])) :
          /\ ~Contains(AllGenes(population[1]), g)
          /\ ~Contains(AllGenes(child), g)

\* the number of genes in the chromosomes before chromosome c
GenesBefore(individual, c) ==
    Len(Flatten([k \in 1..(c - 1) |-> individual.chromosomes[k].genes]))

\* position k of flat holds a value that no earlier position holds
FirstOccurrence(flat, k) == \A j \in 1..(k - 1) : flat[j] # flat[k]

\* the genes of chromosome c that are first occurrences in the scan of the
\* chromosomes by index and of the genes by position, in their order
FirstOccurrences(individual, c) ==
    LET genes == individual.chromosomes[c].genes
        kept == SelectSeq([i \in 1..Len(genes) |-> i],
                          LAMBDA i : FirstOccurrence(AllGenes(individual),
                                                     GenesBefore(individual, c) + i))
    IN  [n \in 1..Len(kept) |-> genes[kept[n]]]

\* C18: the duplicate repair of crossover leaves in every chromosome exactly
\* the genes that are first occurrences in the scan of the chromosomes in index
\* order and of the genes in their order within the chromosome, in their
\* relative order; every later occurrence is gone and the chromosomes keep
\* their ids.
C18_FirstOccurrenceKept ==
    (pc = "crossed")
    => /\ Len(child.chromosomes) = Len(before.chromosomes)
       /\ \A c \in 1..Len(before.chromosomes) :
             /\ child.chromosomes[c].id = before.chromosomes[c].id
             /\ child.chromosomes[c].genes = FirstOccurrences(before, c)

\* a repair that kept two genes of the first chromosome in their order and
\* removed from the second chromosome a gene the first one holds
C18_Witness ==
    /\ pc = "crossed"
    /\ config.number_of_periods = 2
    /\ Len(child.chromosomes[1].genes) = 2
    /\ child.chromosomes[1].genes = before.chromosomes[1].genes
    /\ Len(child.chromosomes[2].genes) < Len(before.chromosomes[2].genes)
    /\ \E i \in 1..Len(before.chromosomes[2].genes) :
          /\ Contains(before.chromosomes[1].genes, before.chromosomes[2].genes[i])
          /\ ~Contains(child.chromosomes[2].genes, before.chromosomes[2].genes[i])

-----------------------------------------------------------------------------
(* calculate_fitness applied to bounded inputs *)

Labels == {"Math", "Physics"}
Rooms == {"101", "102"}
Teachers == {"A", "B"}

\* catalog lengths explored
CatalogLengths == {2, 3}

\* catalogs with ids 1..n whose first tuple is {1, Math, 101, A}, the other
\* tuples taking every label, room and teacher
FitnessCatalogs ==
    UNION {{ts \in [1..n -> [id : 1..n, label : Labels, room : Rooms, teacher : Teachers]] :
                /\ \A j \in 1..n : ts[j].id = j
                /\ ts[1] = Catalog[1]} :
           n \in CatalogLengths}

FitnessInit ==
    /\ MPIIdle
    /\ config \in {cfg \in Configs : cfg.mutation_probability = 0 /\ cfg.population_size = 1}
    /\ tuples \in FitnessCatalogs
    /\ child \in Layouts(config, Catalog)
    /\ before = DefaultIndividual
    /\ population = <<>>
    /\ sel = <<0, 0, 0>>
    /\ fitness = 0
    /\ pc = "input"
    /\ generation = 0

\* calculate_fitness(&child, &tuples, false); the expect() of line 262 panics on
\* a gene that is no catalog id
EvaluateInput ==
    /\ pc = "input"
    /\ IF AllGenesFound(child, tuples)
       THEN /\ fitness' = calculate_fitness(child, tuples)
            /\ pc' = "evaluated"
       ELSE /\ fitness' = fitness
            /\ pc' = "panicked"
    /\ UNCHANGED <<config, tuples, population, child, before, sel, generation>>
    /\ UNCHANGED mpiVars

SpecFitness == FitnessInit /\ [][EvaluateInput]_vars

\* the catalog of the penalty example
ExampleCatalog ==
    << [id |-> 1, label |-> "Math", room |-> "101", teacher |-> "A"],
       [id |-> 2, label |-> "Math", room |-> "101", teacher |-> "A"] >>

\* one chromosome holds exactly the genes 1 and 2, every other one is empty
ExampleIndividual(individual) ==
    \E c \in 1..Len(individual.chromosomes) :
        /\ Len(individual.chromosomes[c].genes) = 2
        /\ Range(individual.chromosomes[c].genes) = {1, 2}
        /\ \A o \in 1..Len(individual.chromosomes) :
              o # c => individual.chromosomes[o].genes = <<>>

Referenced(ts, genes) == {FindTuple(ts, g) : g \in Range(genes)}

\* within each chromosome the referenced tuples differ pairwise in the key
\* "room", "teacher", "room_teacher" or "teacher_label"
KeyOf(t, key) ==
    CASE key = "room" -> <<t.room>>
      [] key = "teacher" -> <<t.teacher>>
      [] key = "room_teacher" -> <<t.room, t.teacher>>
      [] key = "teacher_label" -> <<t.teacher, t.label>>

PairwiseDistinct(individual, ts, key) ==
    \A c \in 1..Len(individual.chromosomes) :
        \A j, k \in Referenced(ts, individual.chromosomes[c].genes) :
            j # k => KeyOf(ts[j], key) # KeyOf(ts[k], key)

\* C5 as stated: pairwise-distinct (room, teacher) pairs and pairwise-distinct
\* (teacher, label) pairs within each chromosome give fitness 0.
C5_Original ==
    (/\ pc = "evaluated"
     /\ PairwiseDistinct(child, tuples, "room_teacher")
     /\ PairwiseDistinct(child, tuples, "teacher_label"))
    => fitness = 0

\* C5 (amended): when within each chromosome the referenced tuples have
\* pairwise-distinct rooms and pairwise-distinct teachers, the fitness is 0.
C5_ConflictFreeScore ==
    (/\ pc = "evaluated"
     /\ PairwiseDistinct(child, tuples, "room")
     /\ PairwiseDistinct(child, tuples, "teacher"))
    => fitness = 0

\* two tuples share a chromosome without sharing a room or a teacher
C5_Witness ==
    /\ pc = "evaluated"
    /\ PairwiseDistinct(child, tuples, "room")
    /\ PairwiseDistinct(child, tuples, "teacher")
    /\ \E c \in 1..Len(child.chromosomes) :
          Cardinality(Referenced(tuples, child.chromosomes[c].genes)) >= 2
    /\ fitness = 0

-----------------------------------------------------------------------------
(* The collective helpers of mpi_utils.rs, called by every rank of the        *)
(* communicator: mpi_split_data_across_nodes on the collection, then          *)
(* mpi_gather_and_synchronize on the shard it returned                        *)

\* the genetic side is not running
GAIdle ==
    /\ config = [max_generations |-> 0, population_size |-> 0,
                 number_of_periods |-> 2, mutation_probability |-> 0]
    /\ tuples = SubSeq(Catalog, 1, 2)
    /\ population = <<>>
    /\ child = DefaultIndividual
    /\ before = DefaultIndividual
    /\ sel = <<0, 0, 0>>
    /\ fitness = 0
    /\ pc = "mpi"
    /\ generation = 0

\* the elements collections are made of: two Individuals of the run's shape
\* that differ in content, and one with a gene less (a shorter serialization)
ElementPool ==
    { [adaptation |-> UNINITIALIZED,
       chromosomes |-> <<[id |-> 0, genes |-> <<1, 2>>], [id |-> 1, genes |-> <<>>]>>],
      [adaptation |-> 0 - 20,
       chromosomes |-> <<[id |-> 0, genes |-> <<2>>], [id |-> 1, genes |-> <<1>>]>>],
      [adaptation |-> 0,
       chromosomes |-> <<[id |-> 0, genes |-> <<1>>], [id |-> 1, genes |-> <<>>]>>] }

Collections == UNION {[1..len -> ElementPool] : len \in 0..MaxLen}

Size == Cardinality(DOMAIN ranks)

\* vec![0; n]
Zeros(n) == [i \in 1..n |-> 0]

\* slice.chunks(n): consecutive pieces of n bytes, the last one possibly shorter
RECURSIVE Chunks(_, _)
Chunks(bytes, n) ==
    IF bytes = <<>> THEN <<>>
    ELSE IF Len(bytes) <= n THEN <<bytes>>
    ELSE <<SubSeq(bytes, 1, n)>> \o Chunks(SubSeq(bytes, n + 1, Len(bytes)), n)

\* chunks(data_size).map(T::from_bytes).collect(): ok unless a from_bytes
\* fails (unwrap panics) or data_size is 0 (chunks panics)
DecodeChunks(bytes, data_size) ==
    IF data_size = 0 THEN [ok |-> FALSE, value |-> <<>>]
    ELSE LET pieces == Chunks(bytes, data_size)
             read == [k \in 1..Len(pieces) |-> IndividualFromBytes(pieces[k])]
         IN  [ok |-> \A k \in 1..Len(pieces) : read[k].ok,
              value |-> [k \in 1..Len(pieces) |-> read[k].value]]

\* mpi_split_data_across_nodes line 107
SplitSize(data, size) == Len(data) \div size

\* (a check that lets every length through)
AlwaysDivisible(data, size) == TRUE

\* mpi_split_data_across_nodes line 108: assert_eq!(data.len() % size, 0)
Divisible(data, size) == Len(data) % size = 0

\* (a scatter that hands the first piece to every rank)
FirstPiece(sendbuf, size, r) == SubSeq(sendbuf, 1, Len(sendbuf) \div size)

\* scatter_into_root / scatter_into: rank r receives the r-th of `size` equal
\* pieces of the root's send buffer
ScatterPiece(sendbuf, size, r) ==
    SubSeq(sendbuf, r * (Len(sendbuf) \div size) + 1, (r + 1) * (Len(sendbuf) \div size))

\* gather_into_root: the send buffers of all ranks, in rank order
RECURSIVE GatherBuffer(_, _, _)
GatherBuffer(rs, r, size) ==
    IF r >= size THEN <<>> ELSE rs[r].payload \o GatherBuffer(rs, r + 1, size)

InitialRank ==
    [call |-> "split", pc |-> "enter", panic |-> "",
     data_size |-> 0, payload |-> <<>>,
     sync_len |-> 0, sync |-> <<>>,
     rec_data |-> <<>>, shard |-> <<>>, gathered |-> <<>>,
     issued |-> <<>>]

Abort(rank, why) == [rank EXCEPT !.pc = "aborted", !.panic = why]

\* mpi_synchronize_ref lines 39-43 on the owner, 46-47 on the others, up to the
\* first broadcast_into: the rank now waits in the broadcast of the length
EnterSynchronize(rank, is_owner, serialized_data) ==
    [rank EXCEPT !.sync = IF is_owner THEN serialized_data ELSE <<>>,
                 !.sync_len = IF is_owner THEN Len(serialized_data) ELSE 0,
                 !.pc = "broadcast_len",
                 !.issued = Append(@, "broadcast")]

MPIInit ==
    /\ GAIdle
    /\ collection \in Collections
    /\ \E size \in 1..MaxRanks :
          /\ owner \in 0..(size - 1)
          /\ ranks = [r \in 0..(size - 1) |-> InitialRank]

\* mpi_split_data_across_nodes lines 103-118 / 123 on rank r, up to its first
\* collective
SplitEnter(r) ==
    /\ ranks[r].call = "split"
    /\ ranks[r].pc = "enter"
    /\ ranks' = [ranks EXCEPT ![r] =
          IF Len(collection) = 0 THEN Abort(@, "empty")
          ELSE IF ~Divisible(collection, Size) THEN Abort(@, "divisible")
          ELSE IF r = owner
               THEN IF ~UniformSize(collection) THEN Abort(@, "uniform")
                    ELSE EnterSynchronize(
                            [@ EXCEPT !.data_size = serialize_vec(collection).data_size,
                                      !.payload = serialize_vec(collection).bytes],
                            TRUE, U64Bytes(serialize_vec(collection).data_size))
               ELSE EnterSynchronize(@, FALSE, <<>>)]
    /\ UNCHANGED <<collection, owner>>
    /\ UNCHANGED gaVars

\* mpi_synchronize_ref lines 43 / 47: broadcast_into(&mut serialized_data_len),
\* once every rank has reached it; the others then allocate the buffer (48)
BroadcastLength ==
    /\ \A r \in DOMAIN ranks : ranks[r].pc = "broadcast_len"
    /\ ranks' = [r \in DOMAIN ranks |->
          [ranks[r] EXCEPT !.sync_len = ranks[owner].sync_len,
                           !.sync = IF r = owner THEN @ ELSE Zeros(ranks[owner].sync_len),
                           !.pc = "broadcast_bytes",
                           !.issued = Append(@, "broadcast")]]
    /\ UNCHANGED <<collection, owner>>
    /\ UNCHANGED gaVars

\* what a rank does once the bytes of mpi_synchronize_ref have arrived: in
\* mpi_execute_and_synchronize_at the value is decoded into the placeholder (51)
\* and returned (73); in mpi_split_data_across_nodes the size is decoded (51) and rec_data allocated
\* (119 / 124) before the scatter; in mpi_gather_and_synchronize the merged
\* collection is decoded (51) and returned (162)
AfterSynchronize(rank, is_owner, bytes, size) ==
    IF rank.call = "execute"
    THEN LET decoded == IndividualFromBytes(bytes)
         IN  IF ~is_owner /\ ~decoded.ok THEN Abort(rank, "decode")
             ELSE [rank EXCEPT !.sync = bytes,
                               !.value = IF is_owner THEN @ ELSE decoded.value,
                               !.pc = "returned"]
    ELSE IF rank.call = "split"
    THEN LET decoded == UsizeFromBytes(bytes)
             data_size == IF is_owner THEN rank.data_size ELSE decoded.value
         IN  IF ~is_owner /\ ~decoded.ok THEN Abort(rank, "decode")
             ELSE [rank EXCEPT !.sync = bytes,
                               !.data_size = data_size,
                               !.rec_data = Zeros(data_size * SplitSize(collection, size)),
                               !.pc = "scatter",
                               !.issued = Append(@, "scatter")]
    ELSE LET decoded == PopulationFromBytes(bytes)
         IN  IF ~is_owner /\ ~decoded.ok THEN Abort(rank, "decode")
             ELSE [rank EXCEPT !.sync = bytes,
                               !.gathered = IF is_owner THEN @ ELSE decoded.value,
                               !.pc = "returned"]

\* mpi_synchronize_ref lines 44 / 49-51: broadcast_into(&mut serialized_data)
BroadcastBytes ==
    /\ \A r \in DOMAIN ranks : ranks[r].pc = "broadcast_bytes"
    /\ ranks' = [r \in DOMAIN ranks |->
          AfterSynchronize(ranks[r], r = owner, ranks[owner].sync, Size)]
    /\ UNCHANGED <<collection, owner>>
    /\ UNCHANGED gaVars

\* mpi_split_data_across_nodes lines 121 / 125 and 128-131: the scatter, and
\* the shard decoded from the piece received
Scatter ==
    /\ \A r \in DOMAIN ranks : ranks[r].pc = "scatter"
    /\ ranks' = [r \in DOMAIN ranks |->
          LET piece == ScatterPiece(ranks[owner].payload, Size, r)
              decoded == DecodeChunks(piece, ranks[r].data_size)
          IN  IF ~decoded.ok THEN Abort([ranks[r] EXCEPT !.rec_data = piece], "decode")
              ELSE [ranks[r] EXCEPT !.rec_data = piece,
                                    !.shard = decoded.value,
                                    !.pc = "returned"]]
    /\ UNCHANGED <<collection, owner>>
    /\ UNCHANGED gaVars

\* mpi_gather_and_synchronize lines 142-152 / 158 on rank r, called with the
\* shard the split returned, up to the gather
GatherEnter(r) ==
    /\ ranks[r].call = "split"
    /\ ranks[r].pc = "returned"
    /\ LET rank == [ranks[r] EXCEPT !.call = "gather"]
       IN  ranks' = [ranks EXCEPT ![r] =
              IF Len(rank.shard) = 0 THEN Abort(rank, "empty")
              ELSE IF ~UniformSize(rank.shard) THEN Abort(rank, "uniform")
              ELSE [rank EXCEPT !.data_size = serialize_vec(rank.shard).data_size,
                                !.payload = serialize_vec(rank.shard).bytes,
                                !.pc = "gather",
                                !.issued = Append(@, "gather")]]
    /\ UNCHANGED <<collection, owner>>
    /\ UNCHANGED gaVars

\* mpi_gather_and_synchronize lines 152-161: the gather of equal-sized send
\* buffers, the decoding on the owner, and the entry into mpi_synchronize_ref
Gather ==
    /\ \A r \in DOMAIN ranks : ranks[r].pc = "gather"
    /\ \A r \in DOMAIN ranks : Len(ranks[r].payload) = Len(ranks[owner].payload)
    /\ ranks' = [r \in DOMAIN ranks |->
          IF r = owner
          THEN LET decoded == DecodeChunks(GatherBuffer(ranks, 0, Size), ranks[r].data_size)
               IN  IF ~decoded.ok THEN Abort(ranks[r], "decode")
                   ELSE EnterSynchronize([ranks[r] EXCEPT !.gathered = decoded.value],
                                         TRUE, PopulationBytes(decoded.value))
          ELSE EnterSynchronize(ranks[r], FALSE, <<>>)]
    /\ UNCHANGED <<collection, owner>>
    /\ UNCHANGED gaVars

MPINext ==
    \/ \E r \in DOMAIN ranks : SplitEnter(r)
    \/ BroadcastLength
    \/ BroadcastBytes
    \/ Scatter
    \/ \E r \in DOMAIN ranks : GatherEnter(r)
    \/ Gather

SpecMPI == MPIInit /\ [][MPINext]_vars

-----------------------------------------------------------------------------
(* Properties of the collective helpers *)

\* the same elements, each as many times
SameBag(a, b) ==
    \A x \in Range(a) \cup Range(b) : Count(a, x) = Count(b, x)

Returned(r) == ranks[r].call = "gather" /\ ranks[r].pc = "returned"

\* C2: for a non-empty collection whose length the worker count divides and
\* whose elements serialize to one byte length, no rank aborts, and every rank,
\* owner or not, returns from the gather with the same multiset of elements as
\* the collection that was split.
C2_RoundTrip ==
    (/\ Len(collection) # 0
     /\ Len(collection) % Size = 0
     /\ UniformSize(collection))
    => \A r \in DOMAIN ranks :
          /\ ranks[r].pc # "aborted"
          /\ Returned(r) => SameBag(ranks[r].gathered, collection)

\* two ranks, each having held a shard of two elements, all back with the four
C2_Witness ==
    /\ Size = 2
    /\ Len(collection) = 4
    /\ UniformSize(collection)
    /\ collection[1] # collection[2]
    /\ collection[1] # collection[3]
    /\ \A r \in DOMAIN ranks :
          /\ Returned(r)
          /\ Len(ranks[r].shard) = 2
          /\ SameBag(ranks[r].gathered, collection)
    /\ ranks[0].shard # ranks[1].shard

\* C8: when the worker count does not divide the length of the collection, a
\* rank that has entered mpi_split_data_across_nodes has aborted on the
\* divisibility assertion, having issued no broadcast and no scatter, and no
\* rank holds a shard.
C8_IndivisibleAborts ==
    (Len(collection) % Size # 0)
    => \A r \in DOMAIN ranks :
          /\ ranks[r].pc \in {"enter", "aborted"}
          /\ ranks[r].pc = "aborted" => ranks[r].panic = "divisible"
          /\ ranks[r].issued = <<>>
          /\ ranks[r].shard = <<>>
          /\ ranks[r].rec_data = <<>>

\* three elements, two ranks: both have aborted
C8_Witness ==
    /\ Size = 2
    /\ Len(collection) = 3
    /\ \A r \in DOMAIN ranks :
          /\ ranks[r].pc = "aborted"
          /\ ranks[r].panic = "divisible"
          /\ ranks[r].issued = <<>>

-----------------------------------------------------------------------------
(* Ranks left waiting in a collective *)

\* the rank waits inside a collective primitive
Blocked(r) == ranks[r].pc \in {"broadcast_len", "broadcast_bytes", "scatter", "gather"}

\* C16 as stated: whatever the collection, an assertion failing on one rank
\* included, no rank is left blocked in a collective of
\* mpi_split_data_across_nodes or mpi_gather_and_synchronize (or of the
\* mpi_synchronize_ref inside them) that another rank never reaches: no rank
\* waits in a collective while another rank has aborted, an aborted rank
\* taking no further step.
C16_Original ==
    \A r, q \in DOMAIN ranks : ~(Blocked(r) /\ ranks[q].pc = "aborted")

\* the owner has failed the equal-size assertion of serialize_vec, which only
\* the owner runs in mpi_split_data_across_nodes (line 116), and the other rank
\* waits in the broadcast of mpi_synchronize_ref, which the owner never enters
C16_Witness ==
    /\ Size = 2
    /\ ranks[owner].pc = "aborted"
    /\ ranks[owner].panic = "uniform"
    /\ ranks[owner].issued = <<>>
    /\ \E r \in DOMAIN ranks :
          /\ r # owner
          /\ ranks[r].call = "split"
          /\ Blocked(r)
          /\ ranks[r].issued = <<"broadcast">>

-----------------------------------------------------------------------------
(* mpi_gather_and_synchronize: mpi_utils.rs 137-163, called by every rank      *)
(* with a shard of its own                                                     *)

\* the most elements a shard of the gather explored holds
MaxShard == MaxLen \div 2

\* the elements of the shards: those of ElementPool (44 and 40 bytes), an
\* Individual without chromosomes (12 bytes) and one with an empty chromosome
\* (24 bytes)
ShardPool ==
    ElementPool \cup
        { DefaultIndividual,
          [adaptation |-> 0 - 40, chromosomes |-> <<[id |-> 0, genes |-> <<>>]>>] }

\* the shards a rank may hold: non-empty, uniform or not
Shards == UNION {[1..len -> ShardPool] : len \in 1..MaxShard}

GatherInit ==
    /\ GAIdle
    /\ collection = <<>>
    /\ \E size \in 1..MaxRanks :
          /\ owner \in 0..(size - 1)
          /\ ranks \in [0..(size - 1) ->
                          {[InitialRank EXCEPT !.pc = "returned", !.shard = shard] :
                              shard \in Shards}]

\* the send buffers differ in length from the owner's, which sized the receive
\* buffer (line 149)
Mismatched ==
    \E r \in DOMAIN ranks : Len(ranks[r].payload) # Len(ranks[owner].payload)

\* MPI leaves a gather whose send counts differ from the root's receive count
\* undefined: the library either ends the job on the error, or fills each
\* rank's slot of the receive buffer with what fits of the rank's bytes
MismatchOutcomes == {"abort", "deliver"}

\* the slot of recvcount bytes of the zeroed buffer (line 149) after a send
\* buffer was received into it
Slot(sendbuf, recvcount) == SubSeq(sendbuf \o Zeros(recvcount), 1, recvcount)

\* gather_into_root: the slots of all ranks, in rank order
RECURSIVE GatherSlots(_, _, _, _)
GatherSlots(rs, r, size, recvcount) ==
    IF r >= size THEN <<>>
    ELSE Slot(rs[r].payload, recvcount) \o GatherSlots(rs, r + 1, size, recvcount)

\* lines 148-161 when the send buffers do not all have the owner's length:
\* nothing in the code compares them, the gather is issued as it is
GatherMismatched ==
    /\ \A r \in DOMAIN ranks : ranks[r].pc = "gather"
    /\ Mismatched
    /\ \E outcome \in MismatchOutcomes :
          ranks' = [r \in DOMAIN ranks |->
             IF outcome = "abort" THEN Abort(ranks[r], "mpi")
             ELSE IF r = owner
             THEN LET buffer == GatherSlots(ranks, 0, Size, Len(ranks[owner].payload))
                      decoded == DecodeChunks(buffer, ranks[r].data_size)
                  IN  IF ~decoded.ok THEN Abort(ranks[r], "decode")
                      ELSE EnterSynchronize([ranks[r] EXCEPT !.gathered = decoded.value],
                                            TRUE, PopulationBytes(decoded.value))
             ELSE EnterSynchronize(ranks[r], FALSE, <<>>)]
    /\ UNCHANGED <<collection, owner>>
    /\ UNCHANGED gaVars

GatherNext ==
    \/ \E r \in DOMAIN ranks : GatherEnter(r)
    \/ Gather
    \/ GatherMismatched
    \/ BroadcastLength
    \/ BroadcastBytes

SpecGather == GatherInit /\ [][GatherNext]_vars

\* the serialized size of the elements of a uniform shard
ElementSize(shard) == Len(IndividualBytes(shard[1]))

\* every shard is uniform in itself, and two ranks differ in element size
SizesDifferAcrossRanks ==
    /\ \A r \in DOMAIN ranks : UniformSize(ranks[r].shard)
    /\ \E q, r \in DOMAIN ranks :
          ElementSize(ranks[q].shard) # ElementSize(ranks[r].shard)

\* C13 as stated: when the shards passed to mpi_gather_and_synchronize differ
\* in element size between ranks, each being uniform in itself, no rank
\* returns a merged collection.
C13_Original ==
    SizesDifferAcrossRanks => \A r \in DOMAIN ranks : ~Returned(r)

\* the send buffers have one length, so the gather itself is well defined, and
\* every rank has returned a collection, decoded from chunks of the owner's
\* element size, that misses an Individual a rank passed in
C13_Witness ==
    /\ SizesDifferAcrossRanks
    /\ ~Mismatched
    /\ \A r \in DOMAIN ranks :
          /\ Returned(r)
          /\ \E q \in DOMAIN ranks :
                \E k \in 1..Len(ranks[q].shard) :
                   Count(ranks[r].gathered, ranks[q].shard[k])
                      < Count(ranks[q].shard, ranks[q].shard[k])

-----------------------------------------------------------------------------
(* mpi_execute_and_synchronize_at: mpi_utils.rs 56-74, called by every rank    *)
(* with the same executor_rank (the variable owner) and R = Individual         *)

\* the values the closure may return: Individuals of one or two chromosomes,
\* scored or not
ClosureResults ==
    {[x EXCEPT !.adaptation = a] :
        x \in UNION {Layouts([number_of_periods |-> p], SubSeq(Catalog, 1, 2)) :
                        p \in 1..MaxPeriods},
        a \in {UNINITIALIZED, 0 - 20}}

\* (a guard that runs the closure on every rank)
RunsClosureEverywhere(current_rank, executor_rank) == TRUE

\* line 67: current_rank == executor_rank
RunsClosure(current_rank, executor_rank) == current_rank = executor_rank

\* a rank about to call: value is value_placeholder, calls counts the runs of
\* f on the rank and result keeps what they returned
ExecuteRank ==
    [InitialRank EXCEPT !.call = "execute"]
        @@ [value |-> DefaultIndividual, calls |-> 0, result |-> <<>>]

ExecuteInit ==
    /\ GAIdle
    /\ collection = <<>>
    /\ \E size \in 1..MaxRanks :
          /\ owner \in 0..(size - 1)
          /\ ranks = [r \in 0..(size - 1) |-> ExecuteRank]

\* lines 66-72 on rank r, into mpi_synchronize_ref up to its first broadcast
ExecuteEnter(r) ==
    /\ ranks[r].call = "execute"
    /\ ranks[r].pc = "enter"
    /\ IF RunsClosure(r, owner)
       THEN \E f \in ClosureResults :
              ranks' = [ranks EXCEPT ![r] =
                 EnterSynchronize([@ EXCEPT !.value = f,
                                            !.calls = @ + 1,
                                            !.result = Append(@, f)],
                                  r = owner, IndividualBytes(f))]
       ELSE ranks' = [ranks EXCEPT ![r] =
                 EnterSynchronize([@ EXCEPT !.value = DefaultIndividual],
                                  r = owner, IndividualBytes(DefaultIndividual))]
    /\ UNCHANGED <<collection, owner>>
    /\ UNCHANGED gaVars

ExecuteNext ==
    \/ \E r \in DOMAIN ranks : ExecuteEnter(r)
    \/ BroadcastLength
    \/ BroadcastBytes

SpecExecute == ExecuteInit /\ [][ExecuteNext]_vars

\* the number of times the closure has run, over ranks 0..r
RECURSIVE ClosureRuns(_)
ClosureRuns(r) == IF r < 0 THEN 0 ELSE ranks[r].calls + ClosureRuns(r - 1)

\* C12: in mpi_execute_and_synchronize_at called by all ranks, the closure
\* runs on the executor rank only and once in total; a non-executor rank
\* starts from Individual::default(); no rank aborts; and a rank that has
\* returned holds the value the closure returned on the executor, the
\* executor included.
C12_ExecuteAndReplicate ==
    /\ ClosureRuns(Size - 1) <= 1
    /\ \A r \in DOMAIN ranks :
          /\ ranks[r].pc # "aborted"
          /\ r # owner => ranks[r].calls = 0
          /\ (r # owner /\ ranks[r].pc \in {"broadcast_len", "broadcast_bytes"})
                => ranks[r].value = DefaultIndividual
          /\ (r = owner /\ ranks[r].pc # "enter")
                => ranks[r].calls = 1 /\ ranks[r].value = ranks[r].result[1]
          /\ ranks[r].pc = "returned"
                => /\ ClosureRuns(Size - 1) = 1
                   /\ ranks[r].value = ranks[owner].result[1]

\* two ranks have returned with a result that is not the default value
C12_Witness ==
    /\ Size = 2
    /\ \A r \in DOMAIN ranks : ranks[r].call = "execute" /\ ranks[r].pc = "returned"
    /\ ranks[owner].result # <<>>
    /\ \A r \in DOMAIN ranks :
          /\ ranks[r].value = ranks[owner].result[1]
          /\ ranks[r].value # DefaultIndividual
          /\ Len(ranks[r].value.chromosomes) = 2

====
